---- MODULE Spec2Model ----
(***************************************************************************)
(* A model of torchtitan/checkpoint.py: CheckpointManager, the coordinator *)
(* that decides when a group of workers persists the training state and    *)
(* how it resumes from the latest checkpoint on disk.                      *)
(*                                                                         *)
(* Every worker of the group runs its own CheckpointManager with the same  *)
(* configuration and is driven by the same training loop, so all workers   *)
(* execute the same sequence of calls.  A handler is a function of the     *)
(* worker's own fields, its own clock and the call's arguments; an action  *)
(* is one call of the training loop, executed by every worker.  The        *)
(* workers share nothing but the folder (each writes its own part of a     *)
(* checkpoint) and the reductions, so the order in which they execute a    *)
(* call does not matter; their clocks are independent.                     *)
(***************************************************************************)
EXTENDS Integers, Sequences, FiniteSets, TLC

\* ---------------------------------------------------------------- bounds
MaxTime == 1
MaxInterval == 2
MaxNew == 1
MaxWatch == 6

Workers == {1, 2}
Times == 0..MaxTime

\* The steps the training loop calls save and load with: one that is off the
\* cadence and odd, one that is on the cadence and even
Steps == {3, 4}

\* ------------------------------------------------------- program constants
CadencePeriod == 5
CadencePhase == 4
LatestStep == -1

SECONDS == "SECONDS"
STEPS == "STEPS"
IntervalType == {SECONDS, STEPS}

\* The registry keys: model and optimizer are installed by __init__, the
\* third is a caller-supplied auxiliary entry.
Keys == {"model", "optimizer", "train_state"}
Vals == 0..1

\* ------------------------------------------------------------------ text
DigitChars == <<"0", "1", "2", "3", "4", "5", "6", "7", "8", "9">>

IsDigit(c) == \E d \in 1..10 : DigitChars[d] = c

DigitVal(c) == (CHOOSE d \in 1..10 : DigitChars[d] = c) - 1

\* f"{step}": the decimal text of an integer
RECURSIVE Str(_)
Str(n) ==
    IF n < 0 THEN <<"-">> \o Str(-n)
    ELSE IF n < 10 THEN <<DigitChars[n + 1]>>
    ELSE Str(n \div 10) \o <<DigitChars[(n % 10) + 1]>>

\* int(text) of a run of decimal digits
RECURSIVE ParseInt(_)
ParseInt(ds) ==
    IF Len(ds) = 0 THEN 0
    ELSE ParseInt(SubSeq(ds, 1, Len(ds) - 1)) * 10 + DigitVal(ds[Len(ds)])

StepPrefix == <<"s", "t", "e", "p", "-">>

\* f"step-{step}"
StepName(step) == StepPrefix \o Str(step)

\* r"step-(\d+)" matched at position i of name
MatchAt(name, i) ==
    /\ i + Len(StepPrefix) <= Len(name)
    /\ SubSeq(name, i, i + Len(StepPrefix) - 1) = StepPrefix
    /\ IsDigit(name[i + Len(StepPrefix)])

\* re.search: the leftmost position where the pattern matches, 0 for no match
RECURSIVE SearchFrom(_, _)
SearchFrom(name, i) ==
    IF i > Len(name) THEN 0
    ELSE IF MatchAt(name, i) THEN i
    ELSE SearchFrom(name, i + 1)

\* \d+ is greedy: the last position of the run of digits that starts at j
RECURSIVE DigitRunEnd(_, _)
DigitRunEnd(name, j) ==
    IF j < Len(name) /\ IsDigit(name[j + 1]) THEN DigitRunEnd(name, j + 1) ELSE j

\* int(match.group(1)) for a name the pattern matches
MatchedStep(name) ==
    LET i == SearchFrom(name, 1)
        j == i + Len(StepPrefix)
    IN  ParseInt(SubSeq(name, j, DigitRunEnd(name, j)))

SetMin(S) == CHOOSE m \in S : \A x \in S : m <= x

\* max(step_counts)
SetMax(S) == CHOOSE m \in S : \A x \in S : x <= m

\* ------------------------------------------------------------------ state
VARIABLES
    folder,              \* self.folder ("" when checkpointing is off)
    interval_type,       \* self.interval_type
    interval,            \* self.interval
    model_weights_only,  \* self.model_weights_only
    mgr,                 \* the CheckpointManager of each worker, see Manager
    now,                 \* time.monotonic() of each worker
    exists,              \* os.path.isdir(self.folder)
    fs,                  \* the entries of the folder
    watch                \* what an observer of a training loop has counted

config == <<folder, interval_type, interval, model_weights_only>>
disk == <<exists, fs>>
vars == <<folder, interval_type, interval, model_weights_only, mgr, now, exists, fs, watch>>

NoPath == <<"", <<>>>>

NoDoit == [kind |-> "none", val |-> 0]

\* The record of one call on one worker; the fields count what the call did:
\* calls of dcp.save (with checkpoint id and keys), of wait, of all_reduce, of
\* reset, of dcp.load (with checkpoint id); the value read from self.doit and
\* the value the reduction waited on had left (-1 for none); what load returned
Outcome(op, step, force) ==
    [op |-> op, step |-> step, force |-> force,
     persists |-> 0, id |-> NoPath, keys |-> {},
     waits |-> 0, starts |-> 0, begins |-> 0, read |-> -1, agg |-> -1,
     restores |-> 0, rid |-> NoPath, ret |-> "none"]

\* The fields of a CheckpointManager after __init__ (l. 62-76):
\*   states   the keys of self.states
\*   live     the snapshot of the live object behind each key
\*   begin    self.begin
\*   work     self.work: 0 for None, else the handle's place in pg
\*   doit     self.doit: none, a tensor of its own, or the tensor being reduced
\*   pg       the reductions started on self.pg and not yet waited on
\*   blocked  the handler waits on a reduction that has not completed
\*   out      what the last call did
Manager ==
    [states |-> Keys, live |-> [k \in Keys |-> 0], begin |-> 0, work |-> 0,
     doit |-> NoDoit, pg |-> <<>>, blocked |-> FALSE,
     out |-> Outcome("none", 0, FALSE)]

\* The observer of a training loop counts calls of save:
\*   age    per worker, the calls made since the call that started the vote
\*          the worker has pending (0 when it has none)
\*   ready  the calls made, without every worker having invoked the
\*          persistence engine, since the first call at which the interval
\*          had elapsed on every worker's clock, that call included
\* The counts stop at MaxWatch.
NoWatch == [age |-> [w \in Workers |-> 0], ready |-> 0]

Counted(n) == IF n < MaxWatch THEN n + 1 ELSE MaxWatch

\* ---------------------------------------------------------- the filesystem
NoShard == [keys |-> {}, val |-> [k \in Keys |-> 0]]

Shard(ks, v) == [keys |-> ks, val |-> [k \in Keys |-> IF k \in ks THEN v[k] ELSE 0]]

\* A checkpoint directory left by an earlier run and a foreign entry
OldCheckpoint(step) ==
    [name |-> StepName(step), isdir |-> TRUE,
     data |-> [w \in Workers |-> Shard(Keys, [k \in Keys |-> 1])]]

Foreign(nm, d) == [name |-> nm, isdir |-> d, data |-> [w \in Workers |-> NoShard]]

\* The folders a run can start from: none, and three listings
Listings ==
    { {},
      {Foreign(<<"l", "o", "g">>, TRUE)},
      {OldCheckpoint(5), OldCheckpoint(12), OldCheckpoint(7)},
      {OldCheckpoint(7), Foreign(<<"x">> \o StepName(30), TRUE),
       Foreign(StepName(9) \o <<".", "t">>, FALSE)} }

\* os.listdir(self.folder)
ListDir == {e.name : e \in fs}

\* os.path.join(self.folder, f"step-{step}")
create_checkpoint_id(step) == <<folder, StepName(step)>>

\* os.path.isdir(path) for a path made by create_checkpoint_id
IsDir(path) ==
    /\ exists
    /\ path[1] = folder
    /\ \E e \in fs : e.name = path[2] /\ e.isdir

\* dcp.save(self.states, checkpoint_id) on the workers P, worker w with the
\* manager m[w]: each writes its part of the checkpoint into the directory,
\* which is created when missing
DcpSave(P, m, path) ==
    LET old == {e \in fs : e.name = path[2]}
        prev == IF old = {} THEN [v \in Workers |-> NoShard]
                ELSE (CHOOSE e \in old : TRUE).data
    IN  IF P = {} THEN fs
        ELSE (fs \ old) \cup
               {[name |-> path[2], isdir |-> TRUE,
                 data |-> [w \in Workers |->
                            IF w \in P THEN Shard(m[w].out.keys, m[w].live)
                            ELSE prev[w]]]}

\* dcp.load can read the worker's part of every key from the checkpoint
CanRestore(w, ks, path) ==
    /\ IsDir(path)
    /\ \E e \in fs : e.name = path[2] /\ ks \subseteq e.data[w].keys

DcpLoadKeeps(w, l, path) == l.live

\* dcp.load(self.states, checkpoint_id): the entries are loaded in place
DcpLoad(w, l, path) ==
    LET e == CHOOSE x \in fs : x.name = path[2]
    IN  [k \in Keys |-> IF k \in l.states THEN e.data[w].val[k] ELSE l.live[k]]

\* --------------------------------------------------------------- the calls
\* The first states: every configuration with no folder on disk; the STEPS
\* configurations with each listing
Init ==
    /\ folder \in {"", "ckpt"}
    /\ interval_type \in IntervalType
    /\ interval \in 1..MaxInterval
    /\ model_weights_only \in BOOLEAN
    /\ mgr = [w \in Workers |-> Manager]
    /\ now = [w \in Workers |-> 0]
    /\ fs \in Listings
    /\ exists = (fs # {})
    /\ watch = NoWatch
    /\ fs # {} => folder # "" /\ interval_type = STEPS /\ interval = MaxInterval

\* The manager of worker w at the start of a call
Enter(w, op, step, force) == [mgr[w] EXCEPT !.out = Outcome(op, step, force)]

\* The group executes a call: every worker's manager becomes what its handler
\* leaves, unless a worker is blocked in a wait
Executes(r) ==
    /\ mgr' = r
    /\ \A w \in Workers : ~mgr'[w].blocked

\* ------------------------------------------------------------ reset (l. 83)
\* self.begin = time.monotonic()
reset(w, l) == [l EXCEPT !.begin = now[w], !.out.begins = @ + 1]

Reset ==
    /\ Executes([w \in Workers |-> reset(w, Enter(w, "reset", 0, FALSE))])
    /\ UNCHANGED <<config, now, disk, watch>>

\* ------------------------------------------------------------- save (l. 89)
StepsDueNext(step) == (step + 1) % interval = 0

\* curr_step % self.interval == 0
StepsDue(step) == step % interval = 0

LocalDueEarly(w, l) == (now[w] - l.begin) >= interval - 1

\* (time.monotonic() - self.begin) >= self.interval
LocalDue(w, l) == (now[w] - l.begin) >= interval

NewDoitOne(w, l) == [kind |-> "own", val |-> 1]

\* torch.tensor(int(doit)): a new tensor, which self.doit is bound to
NewDoit(w, l) == [kind |-> "own", val |-> IF LocalDue(w, l) THEN 1 ELSE 0]

IsCadenceWide(step) == step % CadencePeriod >= CadencePhase - 1

\* curr_step % 5 == 4
IsCadence(step) == step % CadencePeriod = CadencePhase

MustDrainNever(wk) == FALSE

\* if self.work: (l. 118)
MustDrain(wk) == wk # 0

WeightsOnlyForced(force) == force

\* weights_only = force and self.model_weights_only
WeightsOnly(force) == force /\ model_weights_only

\* {"model": self.states["model"]} if weights_only else self.states
Narrowed(ks, force) == IF WeightsOnly(force) THEN {"model"} ELSE ks

ItemZero(l, d) == 0

\* tensor.item() of the tensor d: a tensor that was handed to all_reduce
\* holds what the reduction has left in it
Item(l, d) == IF d.kind = "buf" THEN l.pg[l.work].val ELSE d.val

\* self.work.wait(); self.work = None: blocks until the reduction has
\* completed, then the handle is released
Wait(l) ==
    LET h == l.work
        rest == [i \in 1..(Len(l.pg) - 1) |->
                    IF i < h THEN l.pg[i] ELSE l.pg[i + 1]]
    IN  IF h \in 1..Len(l.pg) /\ l.pg[h].complete
        THEN [l EXCEPT !.work = 0, !.pg = rest,
                       !.out.waits = @ + 1, !.out.agg = l.pg[h].val]
        ELSE [l EXCEPT !.blocked = TRUE]

StartVoteDrops(l) == [l EXCEPT !.out.starts = @ + 1]

\* l. 106: self.work = dist.all_reduce(self.doit, group=self.pg, async_op=True)
StartVote(l) ==
    [l EXCEPT !.pg = Append(@, [val |-> l.doit.val, complete |-> FALSE]),
              !.work = Len(l.pg) + 1,
              !.doit = [kind |-> "buf", val |-> 0],
              !.out.starts = @ + 1]

\* l. 118-121: a pending vote is waited on and dropped
Drain(l) ==
    IF MustDrain(l.work) THEN [Wait(l) EXCEPT !.doit = NoDoit] ELSE l

\* l. 125-134: narrow the registry, persist it, reset the clock
Persist(w, l, step, force) ==
    LET ks == Narrowed(l.states, force)
    IN  IF l.blocked THEN l
        ELSE reset(w, [l EXCEPT !.states = ks,
                                !.out.persists = @ + 1,
                                !.out.id = create_checkpoint_id(step),
                                !.out.keys = ks])

CheckVoteResets(w, l, step) ==
    LET waited == Wait(l)
        read == Item(l, l.doit)
        checked == [waited EXCEPT !.doit = NoDoit, !.out.read = read]
    IN  IF waited.blocked THEN waited
        ELSE IF read = 0 THEN reset(w, checked)
        ELSE Persist(w, Drain(checked), step, FALSE)

\* l. 109-114: the cadence call waits on the handle, reads self.doit and
\* returns when it holds 0
CheckVote(w, l, step) ==
    LET waited == Wait(l)
        read == Item(l, l.doit)
        checked == [waited EXCEPT !.doit = NoDoit, !.out.read = read]
    IN  IF waited.blocked THEN waited
        ELSE IF read = 0 THEN checked
        ELSE Persist(w, Drain(checked), step, FALSE)

NoVoteAlways(wk) == TRUE

\* if self.work is None: (l. 105)
NoVote(wk) == wk = 0

GateVotesWhenDue(w, l, step) ==
    LET voted == [l EXCEPT !.doit = NewDoit(w, l)]
    IN  IF NoVote(voted.work)
        THEN IF LocalDue(w, l) THEN StartVote(voted) ELSE voted
        ELSE IF IsCadence(step) THEN CheckVote(w, voted, step)
        ELSE voted

GateNeverChecks(w, l, step) ==
    LET voted == [l EXCEPT !.doit = NewDoit(w, l)]
    IN  IF NoVote(voted.work) THEN StartVote(voted) ELSE voted

\* l. 102-116: SECONDS, not forced
Gate(w, l, step) ==
    LET voted == [l EXCEPT !.doit = NewDoit(w, l)]
    IN  IF NoVote(voted.work) THEN StartVote(voted)
        ELSE IF IsCadence(step) THEN CheckVote(w, voted, step)
        ELSE voted

saveAnyFolder(w, step, force) ==
    LET l == Enter(w, "save", step, force)
    IN  IF ~force /\ interval_type = STEPS /\ ~StepsDue(step) THEN l
        ELSE IF ~force /\ interval_type = SECONDS THEN Gate(w, l, step)
        ELSE Persist(w, Drain(l), step, force)

\* save(curr_step, force) on worker w
save(w, step, force) ==
    LET l == Enter(w, "save", step, force)
    IN  IF folder = "" THEN l
        ELSE IF ~force /\ interval_type = STEPS /\ ~StepsDue(step) THEN l
        ELSE IF ~force /\ interval_type = SECONDS THEN Gate(w, l, step)
        ELSE Persist(w, Drain(l), step, force)

\* The run may add the checkpoint to the folder (the bound of the model:
\* at most MaxNew checkpoint directories are added to the initial listing)
HasRoom(path) ==
    \/ Cardinality({e \in fs : \E st \in Steps : e.name = StepName(st)}) < MaxNew
    \/ \E e \in fs : e.name = path[2]

\* The group calls save(step, force): the workers that persist write the
\* checkpoint of the step
Saves(step, force) ==
    /\ Executes([w \in Workers |-> save(w, step, force)])
    /\ LET P == {w \in Workers : mgr'[w].out.persists > 0}
           path == create_checkpoint_id(step)
       IN  /\ P # {} => HasRoom(path)
           /\ fs' = DcpSave(P, mgr', path)
           /\ exists' = (exists \/ P # {})

Save ==
    \E step \in Steps, force \in BOOLEAN :
        /\ Saves(step, force)
        /\ UNCHANGED <<config, now, watch>>

\* ------------------------------------------------------------ load (l. 139)
\* l. 148-152: the step numbers of the entries the pattern is found in
StepCounts == {MatchedStep(nm) : nm \in {x \in ListDir : SearchFrom(x, 1) # 0}}

\* l. 147-155: the step that load resolves to
Resolved(step) == IF step = LatestStep THEN SetMax(StepCounts) ELSE step

LoadFailsNoStep(step) ==
    \/ folder = ""
    \/ ~exists
    \/ step = LatestStep /\ StepCounts = {}

\* l. 140-145 and l. 153: the cases that return False
LoadFails(step) ==
    \/ folder = ""
    \/ ~exists
    \/ step # LatestStep /\ ~IsDir(create_checkpoint_id(step))
    \/ step = LatestStep /\ StepCounts = {}

\* l. 159-166: dcp.load of the resolved step, then return True; when dcp.load
\* finds no checkpoint to read it raises and load does not return
Restore(w, l, path) ==
    IF CanRestore(w, l.states, path)
    THEN [l EXCEPT !.live = DcpLoad(w, l, path), !.out.restores = @ + 1,
                   !.out.rid = path, !.out.ret = "true"]
    ELSE [l EXCEPT !.out.restores = @ + 1, !.out.rid = path, !.out.ret = "raised"]

\* load(step) on a manager whose fields are those of m
loadFrom(w, m, step) ==
    LET l == [m EXCEPT !.out = Outcome("load", step, FALSE)]
    IN  IF LoadFails(step) THEN [l EXCEPT !.out.ret = "false"]
        ELSE Restore(w, l, create_checkpoint_id(Resolved(step)))

\* load(step) on worker w
load(w, step) == loadFrom(w, mgr[w], step)

Load ==
    \E step \in {LatestStep} \cup Steps :
        /\ Executes([w \in Workers |-> load(w, step)])
        /\ UNCHANGED <<config, now, disk, watch>>

\* ------------------------------------------------------- the environment
\* The clock of a worker advances
Tick(w) ==
    /\ now[w] < MaxTime
    /\ now' = [now EXCEPT ![w] = @ + 1]
    /\ UNCHANGED <<config, mgr, disk, watch>>

\* The oldest reduction of a worker that has not completed, 0 when none
FirstOpen(w) ==
    IF \E i \in 1..Len(mgr[w].pg) : ~mgr[w].pg[i].complete
    THEN CHOOSE i \in 1..Len(mgr[w].pg) :
            /\ ~mgr[w].pg[i].complete
            /\ \A j \in 1..(i - 1) : mgr[w].pg[j].complete
    ELSE 0

RECURSIVE SumVotes(_)
SumVotes(S) ==
    IF S = {} THEN 0
    ELSE LET w == CHOOSE x \in S : TRUE
         IN  mgr[w].pg[FirstOpen(w)].val + SumVotes(S \ {w})

\* dist.all_reduce (l. 106): once every worker of the group has entered the
\* reduction, each worker's tensor is overwritten with the sum
Reduce ==
    /\ \A w \in Workers : FirstOpen(w) # 0
    /\ mgr' = [w \in Workers |->
                 [mgr[w] EXCEPT !.pg[FirstOpen(w)] =
                     [val |-> SumVotes(Workers), complete |-> TRUE]]]
    /\ UNCHANGED <<config, now, disk, watch>>

\* A training step changes the objects the registry refers to (l. 63-70:
\* self.states holds the caller's model, optimizer and auxiliary objects)
Train ==
    \E v \in Vals :
        /\ mgr' = [w \in Workers |->
                     [Enter(w, "train", 0, FALSE) EXCEPT !.live = [k \in Keys |-> v]]]
        /\ UNCHANGED <<config, now, disk, watch>>

Next ==
    \/ Save
    \/ Reset
    \/ Load
    \/ \E w \in Workers : Tick(w)
    \/ Reduce

Spec == Init /\ [][Next]_vars

\* A run with training between the calls, on a folder that starts empty; the
\* clocks read anything when the run starts and stand still during it
InitTrain ==
    /\ folder = "ckpt"
    /\ interval_type \in IntervalType
    /\ interval \in 1..MaxInterval
    /\ model_weights_only \in BOOLEAN
    /\ mgr = [w \in Workers |-> Manager]
    /\ now \in [Workers -> Times]
    /\ fs = {}
    /\ exists = FALSE
    /\ watch = NoWatch

NextTrain ==
    \/ Save
    \/ Load
    \/ Reset
    \/ Reduce
    \/ Train

SpecTrain == InitTrain /\ [][NextTrain]_vars

\* ----------------------------------------------------- the training loop
\* The training loop calls save once per step, with consecutive steps.  The
\* gate reads curr_step through curr_step % 5 only (l. 108), so the loop
\* counts its steps modulo 5.
LoopStep ==
    LET w == CHOOSE x \in Workers : TRUE
    IN  (mgr[w].out.step + 1) % CadencePeriod

\* The observer counts the call the group has just made
Watched ==
    LET ready == \A w \in Workers : LocalDue(w, mgr[w])
        persisted == \A w \in Workers : mgr'[w].out.persists > 0
    IN  watch' =
          [age |-> [w \in Workers |->
                      IF mgr'[w].work = 0 \/ mgr'[w].out.starts > 0 THEN 0
                      ELSE Counted(watch.age[w])],
           ready |-> IF persisted THEN 0
                     ELSE IF ready \/ watch.ready > 0 THEN Counted(watch.ready)
                     ELSE 0]

\* One iteration: save(curr_step), not forced
LoopSave ==
    /\ Saves(LoopStep, FALSE)
    /\ Watched
    /\ UNCHANGED <<config, now>>

\* time.monotonic() counts from a reference point that is not defined: only
\* differences of its readings mean anything.  Once begin holds a reading
\* (l. 84), the model may move the reference point of the worker's clock to
\* that reading, which lets the clock advance without bound within Times.
Rebase(w) ==
    /\ mgr[w].begin > 0
    /\ now' = [now EXCEPT ![w] = @ - mgr[w].begin]
    /\ mgr' = [mgr EXCEPT ![w].begin = 0]
    /\ UNCHANGED <<config, disk, watch>>

\* The loop starts at any step with SECONDS checkpointing on a folder that
\* starts empty, right after construction; the interval is one the clocks
\* of the model can reach
InitLoop ==
    /\ folder = "ckpt"
    /\ interval_type = SECONDS
    /\ interval \in {i \in 1..MaxInterval : i <= MaxTime}
    /\ model_weights_only \in BOOLEAN
    /\ \E first \in 0..(CadencePeriod - 1) :
          mgr = [w \in Workers |-> [Manager EXCEPT !.out.step = first]]
    /\ now = [w \in Workers |-> 0]
    /\ fs = {}
    /\ exists = FALSE
    /\ watch = NoWatch

NextLoop ==
    \/ LoopSave
    \/ Reduce
    \/ \E w \in Workers : Tick(w)
    \/ \E w \in Workers : Rebase(w)

\* The loop goes on calling save, a reduction that every worker has entered
\* completes, and every clock advances
LoopFairness ==
    /\ WF_vars(LoopSave)
    /\ WF_vars(Reduce)
    /\ \A w \in Workers : WF_vars(Tick(w)) /\ WF_vars(Rebase(w))

SpecLoop == InitLoop /\ [][NextLoop]_vars /\ LoopFairness

\* ================================================================ claims
\* What the last call did on worker w
O(w) == mgr[w].out

LoadSteps == {LatestStep} \cup Steps

\* ------------------------------------------------------------------- C1
\* C1: in every save call either every worker invokes the persistence
\* engine or none does: no worker persists at a step that a sibling skips.
C1_AllOrNone ==
    \A v, w \in Workers :
        O(v).op = "save" => O(v).persists = O(w).persists

\* ------------------------------------------------------------------- C2
\* C2: in SECONDS mode a save that is not forced invokes the persistence
\* engine on a worker only if at least `interval` seconds of the worker's
\* clock have passed since begin, the clock value of its last reset (or of
\* its last completed save); with no time elapsed it never persists.
C2_NotBeforeInterval ==
    \A w \in Workers, step \in Steps :
        (interval_type = SECONDS /\ save(w, step, FALSE).out.persists > 0)
            => now[w] - mgr[w].begin >= interval

\* A save that was not forced has persisted in SECONDS mode, after a reset
C2_Witness ==
    \E w \in Workers :
        /\ interval_type = SECONDS
        /\ O(w).op = "save" /\ ~O(w).force /\ O(w).persists = 1
        /\ mgr[w].begin > 0

\* ------------------------------------------------------------------- C3
\* C3: while a vote is pending, a save that is neither forced nor a cadence
\* call (step mod 5 = 4) returns without invoking the persistence engine,
\* without waiting on the handle and without starting a vote; the vote stays
\* pending.
C3_PendingSkip ==
    \A w \in Workers, step \in Steps :
        (mgr[w].work # 0 /\ step % 5 # 4) =>
            LET r == save(w, step, FALSE)
            IN  /\ ~r.blocked
                /\ r.out.persists = 0 /\ r.out.waits = 0 /\ r.out.starts = 0
                /\ r.work = mgr[w].work /\ r.pg = mgr[w].pg

\* Such a call has returned: the vote it found is still pending
C3_Witness ==
    \E w \in Workers :
        /\ O(w).op = "save" /\ ~O(w).force /\ O(w).step % 5 # 4
        /\ O(w).starts = 0 /\ mgr[w].work # 0

\* ------------------------------------------------------------------- C4
\* C4: with a folder configured, a forced save that returns has invoked the
\* persistence engine exactly once, with the identifier of the given step,
\* in every state; a pending vote is waited on and its result is not read;
\* afterwards there is no handle and no pending value.
C4_ForcedSave ==
    \A w \in Workers, step \in Steps :
        LET r == save(w, step, TRUE)
        IN  (folder # "" /\ ~r.blocked) =>
                /\ r.out.persists = 1
                /\ r.out.id[1] = folder
                /\ SubSeq(r.out.id[2], 1, 5) = <<"s", "t", "e", "p", "-">>
                /\ ParseInt(SubSeq(r.out.id[2], 6, Len(r.out.id[2]))) = step
                /\ r.out.waits = (IF mgr[w].work # 0 THEN 1 ELSE 0)
                /\ r.out.read = -1 /\ r.out.starts = 0
                /\ r.work = 0 /\ r.doit = NoDoit /\ r.pg = <<>>

\* A forced save has drained a pending vote and persisted
C4_Witness ==
    \E w \in Workers :
        /\ O(w).op = "save" /\ O(w).force
        /\ O(w).waits = 1 /\ O(w).persists = 1 /\ mgr[w].work = 0

\* ------------------------------------------------------------------- C5
\* C5: at most one vote is outstanding per coordinator: a reduction is
\* started only when no handle is held, a handle is held exactly while a
\* reduction is outstanding, and a call waits at most once, on the handle it
\* then clears.
C5_OneVote ==
    \A w \in Workers :
        /\ Len(mgr[w].pg) <= 1
        /\ (mgr[w].work # 0) = (Len(mgr[w].pg) = 1)
        /\ O(w).waits <= 1 /\ O(w).starts <= 1
        /\ \A step \in Steps, force \in BOOLEAN :
              LET r == save(w, step, force)
              IN  /\ r.out.starts > 0 => mgr[w].work = 0
                  /\ r.out.waits > 0 => mgr[w].work # 0 /\ r.work = 0

\* A vote was started, waited on once and cleared
C5_Witness ==
    \E w \in Workers :
        /\ O(w).op = "save" /\ O(w).waits = 1
        /\ mgr[w].work = 0 /\ mgr[w].pg = <<>>

\* ------------------------------------------------------------------- C6
\* C6: begin is written exactly once by a reset call and by a save that
\* invoked the persistence engine, and by nothing else: a save that returns
\* early and a load leave begin as it was.
C6_BeginFrame ==
    \A w \in Workers :
        /\ O(w).begins = (IF O(w).op = "reset" THEN 1
                          ELSE IF O(w).op = "save" THEN O(w).persists ELSE 0)
        /\ \A step \in Steps, force \in BOOLEAN :
              LET r == save(w, step, force)
              IN  r.out.persists = 0 =>
                     r.begin = mgr[w].begin /\ r.out.begins = 0
        /\ \A step \in LoadSteps :
              LET r == load(w, step)
              IN  r.begin = mgr[w].begin /\ r.out.begins = 0

\* A vote was resolved as not due after the clock had moved on: begin stayed
C6_Witness ==
    \E w \in Workers :
        /\ O(w).op = "save" /\ O(w).waits = 1 /\ O(w).persists = 0
        /\ O(w).begins = 0 /\ mgr[w].begin < now[w]

\* ------------------------------------------------------------------- C7
\* C7: in STEPS mode with a folder, a save that is not forced invokes the
\* persistence engine if and only if step mod interval = 0, whatever the
\* clock, begin and the earlier calls.
C7_StepsDue ==
    \A w \in Workers, step \in Steps :
        (interval_type = STEPS /\ folder # "") =>
            save(w, step, FALSE).out.persists = (IF step % interval = 0 THEN 1 ELSE 0)

\* A step that is a multiple of an interval above 1 was persisted, after
\* the clock had moved and begin had been reset
C7_Witness ==
    \E w \in Workers :
        /\ interval_type = STEPS /\ interval > 1
        /\ O(w).op = "save" /\ ~O(w).force /\ O(w).persists = 1
        /\ O(w).step % interval = 0 /\ mgr[w].begin > 0

\* ------------------------------------------------------------------- C8
\* C8: after any sequence of operations, a forced save hands the persistence
\* engine exactly {model} when model_weights_only is configured and the full
\* registry (model, optimizer, the auxiliary entry) when it is not.
C8_ForcedKeys ==
    \A w \in Workers, step \in Steps :
        LET r == save(w, step, TRUE)
        IN  (folder # "" /\ ~r.blocked) =>
                r.out.keys = (IF model_weights_only THEN {"model"}
                              ELSE {"model", "optimizer", "train_state"})

\* A forced save persisted the full registry after an earlier save and load
C8_Witness ==
    \E w \in Workers :
        /\ ~model_weights_only
        /\ O(w).op = "save" /\ O(w).force /\ O(w).persists = 1
        /\ O(w).keys = {"model", "optimizer", "train_state"}
        /\ \E k \in Keys : mgr[w].live[k] # 0

\* ------------------------------------------------------------------- C9
DigitSet == {"0", "1", "2", "3", "4", "5", "6", "7", "8", "9"}

\* The text "step-" and a digit stand at position i of the name
HasPattern(nm, i) ==
    /\ i >= 1 /\ i + 5 <= Len(nm)
    /\ nm[i] = "s" /\ nm[i + 1] = "t" /\ nm[i + 2] = "e" /\ nm[i + 3] = "p"
    /\ nm[i + 4] = "-" /\ nm[i + 5] \in DigitSet

RECURSIVE Pow10(_)
Pow10(k) == IF k = 0 THEN 1 ELSE 10 * Pow10(k - 1)

\* The number a run of digits denotes, by the weight of each place
RECURSIVE Weigh(_)
Weigh(ds) ==
    IF ds = <<>> THEN 0
    ELSE Cardinality({d \in 1..10 : \E h \in 1..10 :
                        DigitChars[h] = Head(ds) /\ d < h}) * Pow10(Len(ds) - 1)
         + Weigh(Tail(ds))

\* The step number of an entry whose name holds the pattern: the digits that
\* follow its first "step-"
EntryStep(nm) ==
    LET i == CHOOSE j \in 1..Len(nm) :
                HasPattern(nm, j) /\ \A k \in 1..(j - 1) : ~HasPattern(nm, k)
        e == CHOOSE k \in (i + 5)..Len(nm) :
                /\ \A m \in (i + 5)..k : nm[m] \in DigitSet
                /\ k = Len(nm) \/ nm[k + 1] \notin DigitSet
    IN  Weigh(SubSeq(nm, i + 5, e))

\* The step numbers of the folder entries that match the naming pattern
EntrySteps ==
    {EntryStep(e.name) : e \in {x \in fs : \E i \in 1..Len(x.name) : HasPattern(x.name, i)}}

\* The checkpoint of step n is a directory of the folder that holds worker
\* w's part of every key of its registry
Readable(w, n) ==
    \E e \in fs : /\ e.isdir
                  /\ e.name = <<"s", "t", "e", "p", "-">> \o Str(n)
                  /\ mgr[w].states \subseteq e.data[w].keys

C10_LoadMissing ==
    \A w \in Workers, step \in LoadSteps :
        (\/ ~exists
         \/ /\ step # -1
            /\ ~\E e \in fs : e.isdir /\ e.name = <<"s", "t", "e", "p", "-">> \o Str(step))
        => LET r == load(w, step)
           IN  /\ r.out.ret = "false" /\ r.out.restores = 0
               /\ r.states = mgr[w].states /\ r.live = mgr[w].live
               /\ r.begin = mgr[w].begin
               /\ r.work = mgr[w].work /\ r.doit = mgr[w].doit /\ r.pg = mgr[w].pg

\* load of a step that is not in the existing folder has returned false
\* while a vote was pending
C10_Witness ==
    \E w \in Workers :
        /\ exists
        /\ O(w).op = "load" /\ O(w).step # -1 /\ O(w).ret = "false"
        /\ mgr[w].work # 0

\* ------------------------------------------------------------------ C11
\* C11: with an empty folder configured, no call has ever invoked the
\* persistence engine or restore or started a vote, and nothing is on disk;
\* a save, forced or not, in either interval mode, leaves the registry, begin
\* and the vote state as they were; a load returns false.
C11_NoFolder ==
    folder = "" =>
        /\ fs = {} /\ ~exists
        /\ \A w \in Workers :
              /\ O(w).persists = 0 /\ O(w).restores = 0 /\ O(w).starts = 0
              /\ mgr[w].work = 0 /\ mgr[w].pg = <<>> /\ mgr[w].doit = NoDoit
              /\ \A step \in Steps, force \in BOOLEAN :
                    LET r == save(w, step, force)
                    IN  /\ r.out.persists = 0 /\ r.out.starts = 0 /\ r.out.waits = 0
                        /\ r.states = mgr[w].states /\ r.live = mgr[w].live
                        /\ r.begin = mgr[w].begin /\ r.out.begins = 0
                        /\ r.work = mgr[w].work /\ r.doit = mgr[w].doit
                        /\ r.pg = mgr[w].pg /\ ~r.blocked
              /\ \A step \in LoadSteps :
                    LET r == load(w, step)
                    IN  r.out.ret = "false" /\ r.out.restores = 0

\* With no folder, a forced save has returned after a reset that moved begin
C11_Witness ==
    \E w \in Workers :
        /\ folder = ""
        /\ O(w).op = "save" /\ O(w).force /\ O(w).persists = 0
        /\ mgr[w].begin > 0

\* ------------------------------------------------------------------ C12
\* C12: once a save at some step has persisted the registry, then however
\* the registry entries are changed afterwards, a load of that step returns
\* true and leaves every registry entry (the entries the save persisted)
\* with the snapshot it had at the time of the save.
C12_RoundTrip ==
    \A w \in Workers :
        (O(w).op = "save" /\ O(w).persists = 1) =>
            /\ mgr[w].states = O(w).keys
            /\ \A changed \in [Keys -> Vals] :
                  LET r == loadFrom(w, [mgr[w] EXCEPT !.live = changed], O(w).step)
                  IN  /\ r.out.ret = "true"
                      /\ r.states = mgr[w].states
                      /\ \A k \in mgr[w].states : r.live[k] = mgr[w].live[k]

\* A load of an explicit step has brought the model back to the snapshot 1
\* that a save of this run persisted, after training had moved every entry
\* on to 0
C12_Witness ==
    \E w \in Workers :
        /\ O(w).op = "load" /\ O(w).step \in Steps /\ O(w).ret = "true"
        /\ mgr[w].live["model"] = 1
        /\ mgr[w].live["optimizer"] = 0

\* ------------------------------------------------------------------ C13
\* C13: a SECONDS save that is not forced, at a cadence step (step mod 5 = 4)
\* with a vote pending, decides by the aggregated result of the reduction
\* started for that vote: when it returns it has invoked the persistence
\* engine if and only if the reduced value is not zero, and in both outcomes
\* no handle and no pending value are left.
C13_Aggregated ==
    \A w \in Workers, step \in Steps :
        (folder # "" /\ interval_type = SECONDS /\ step % 5 = 4 /\ mgr[w].work # 0) =>
            LET r == save(w, step, FALSE)
                aggregated == mgr[w].pg[mgr[w].work].val
            IN  ~r.blocked =>
                    /\ (r.out.persists = 1) = (aggregated # 0)
                    /\ r.out.persists \in {0, 1}
                    /\ r.work = 0 /\ r.doit = NoDoit /\ r.pg = <<>>

\* ------------------------------------------------------------------ C14
\* C14, as stated: with no vote pending, a SECONDS save that is not forced
\* starts a vote only if the worker's clock says the interval has elapsed
\* since begin; when it has not, no reduction is started and no handle is
\* held afterwards.
C14_VoteOnlyIfDue ==
    \A w \in Workers, step \in Steps :
        (folder # "" /\ interval_type = SECONDS /\ mgr[w].work = 0) =>
            LET r == save(w, step, FALSE)
                elapsed == now[w] - mgr[w].begin >= interval
            IN  /\ r.out.starts > 0 => elapsed
                /\ ~elapsed => r.out.starts = 0 /\ r.work = 0

\* C14, amended: with no vote pending, a SECONDS save that is not forced
\* always starts exactly one reduction and holds its handle afterwards,
\* whatever the worker's clock says; the clock decides only the value the
\* worker votes, 1 when the interval has elapsed since begin and 0 when it
\* has not.  The call neither waits nor persists, and leaves begin alone.
C14_VoteAlways ==
    \A w \in Workers, step \in Steps :
        (folder # "" /\ interval_type = SECONDS /\ mgr[w].work = 0) =>
            LET r == save(w, step, FALSE)
                elapsed == now[w] - mgr[w].begin >= interval
            IN  /\ ~r.blocked
                /\ r.out.starts = 1 /\ r.work # 0
                /\ Len(r.pg) = Len(mgr[w].pg) + 1
                /\ r.pg[r.work] = [val |-> IF elapsed THEN 1 ELSE 0, complete |-> FALSE]
                /\ r.out.waits = 0 /\ r.out.persists = 0
                /\ r.begin = mgr[w].begin

\* A vote of 0 was started by a worker whose interval had not elapsed, after
\* an earlier vote had been consumed
C14_Witness ==
    \E w \in Workers :
        /\ O(w).op = "save" /\ ~O(w).force /\ O(w).starts = 1
        /\ now[w] - mgr[w].begin < interval
        /\ mgr[w].work # 0
        /\ mgr[w].pg[mgr[w].work] = [val |-> 0, complete |-> FALSE]
        /\ mgr[w].begin > 0

\* ------------------------------------------------------------------ C15
\* C15: a save leaves the registry as it found it, forced and weights-only
\* included: the registry that __init__ filled with model, optimizer and the
\* auxiliary entry holds these three entries after every call.
C15_RegistryKept ==
    \A w \in Workers :
        mgr[w].states = {"model", "optimizer", "train_state"}

\* ------------------------------------------------------------------ C16
\* C16: in a loop that calls save once per consecutive step, a vote that is
\* still pending has been pending for at most 4 calls after the call that
\* started it, so it is consumed no later than the 5th following call; and a
\* call waits on a pending handle only when it is a cadence check
\* (step mod 5 = 4) or forced.
C16_Staleness ==
    \A w \in Workers :
        /\ watch.age[w] <= 4
        /\ mgr[w].work = 0 => watch.age[w] = 0
        /\ \A step \in 0..4, force \in BOOLEAN :
              LET r == save(w, step, force)
              IN  (r.out.waits > 0 \/ r.blocked) => (step % 5 = 4 \/ force)

\* A vote is pending for the 4th call after the one that started it
C16_Witness ==
    \E w \in Workers : mgr[w].work # 0 /\ watch.age[w] = 4

\* ------------------------------------------------------------------ C17
\* C17, as stated: in the SECONDS loop of non-forced saves on consecutive
\* steps, from any first step, once a call is made at which the interval has
\* elapsed on every worker's clock, the persistence engine is invoked in
\* that call or within at most 4 further calls: never have 5 calls, that
\* call included, passed without it.
C17_Within4 == watch.ready <= 4

\* C17, amended: ... the persistence engine is invoked, on every worker,
\* within at most 5 further calls: never have 6 calls passed without it, and
\* 5 have passed only when the first of them started a vote at a cadence
\* step (the vote is then 4 calls old and the last call was at step mod 5 =
\* 3), as the first call of a loop can.
C17_Within5 ==
    /\ watch.ready <= 5
    /\ watch.ready = 5 =>
          \A w \in Workers : watch.age[w] = 4 /\ O(w).step % 5 = 3

\* The interval had elapsed on every clock at a call, and 5 calls have
\* passed without the persistence engine being invoked
C17_Witness == watch.ready = 5

\* ------------------------------------------------------------------ C18
\* C18: in the SECONDS loop of non-forced saves on consecutive steps, with
\* every clock advancing without bound, every worker invokes the
\* persistence engine again and again (after every completed save and after
\* the reset the loop starts from, it is eventually invoked again), and a
\* pending vote is always eventually consumed.
C18_Live ==
    \A w \in Workers :
        /\ []<>(O(w).op = "save" /\ O(w).persists = 1)
        /\ (mgr[w].work # 0) ~> (mgr[w].work = 0)

\* A worker has persisted in the loop at a cadence step and consumed its
\* vote, while its sibling, whose interval has not elapsed, has not
C18_Witness ==
    \E v, w \in Workers :
        /\ O(w).op = "save" /\ O(w).persists = 1 /\ O(w).step = 4
        /\ mgr[w].work = 0 /\ mgr[w].begin = now[w] /\ mgr[w].begin > 0
        /\ O(v).persists = 0 /\ now[v] - mgr[v].begin < interval

\* ------------------------------------------------------------------ C19
\* C19: workers that share the configuration and make the same calls are in
\* the same vote state after every call, whatever their clocks read: all
\* hold a handle or none does; each call starts a reduction on all of them
\* or on none and waits on all of them or on none; so every worker has
\* entered as many reductions as its siblings and none waits on a reduction
\* a sibling has not entered.
C19_Lockstep ==
    \A v, w \in Workers :
        /\ (mgr[v].work = 0) = (mgr[w].work = 0)
        /\ O(v).starts = O(w).starts
        /\ O(v).waits = O(w).waits
        /\ Len(mgr[v].pg) = Len(mgr[w].pg)
        /\ \A step \in Steps, force \in BOOLEAN :
              LET rv == save(v, step, force)
                  rw == save(w, step, force)
              IN  /\ rv.blocked = rw.blocked
                  /\ ~rv.blocked =>
                        /\ rv.out.starts = rw.out.starts
                        /\ rv.out.waits = rw.out.waits

\* Two workers whose clocks differ have both waited on their handles in a
\* call that one of them persisted and the other did not
C19_Witness ==
    \E v, w \in Workers :
        /\ now[v] # now[w]
        /\ O(v).op = "save" /\ O(v).waits = 1 /\ O(w).waits = 1
        /\ O(v).persists = 1 /\ O(w).persists = 0
        /\ mgr[v].work = 0 /\ mgr[w].work = 0

\* ------------------------------------------------------------------ C20
\* C20: whenever load(-1) invokes restore, the identifier it passes is the
\* folder joined with the name of an entry of the folder that is a directory
\* and is named step-N, the digits of N and nothing else after "step-".
C20_LatestExists ==
    \A w \in Workers :
        LET r == load(w, -1)
        IN  r.out.restores > 0 =>
                \E e \in fs :
                    /\ e.isdir
                    /\ r.out.rid = <<folder, e.name>>
                    /\ Len(e.name) > 5
                    /\ SubSeq(e.name, 1, 5) = <<"s", "t", "e", "p", "-">>
                    /\ \A i \in 6..Len(e.name) : e.name[i] \in DigitSet

====
